---- MODULE Spec2Model ----
(***************************************************************************)
(* Model of the hub connection of a SignalR client (hubconnection.go):     *)
(* the Connected flag and the cancellation context of defaultHubConnection,*)
(* one caller of Receive with the read attempt it spawns, one caller of    *)
(* the typed senders and Close with the write attempt writeMessage spawns, *)
(* the peer and the Connection as the environment.                         *)
(*                                                                         *)
(* Every atomic operation, channel operation and blocking call of the Go   *)
(* code is one step, so that the interleavings of the goroutines are the   *)
(* behaviours of Spec.                                                     *)
(***************************************************************************)
EXTENDS Integers, Sequences, FiniteSets, TLC

(***************************************************************************)
(* Bounds of the model.                                                    *)
(***************************************************************************)
\* maximumReceiveMessageSize: len(data), the most bytes one Read returns
MaxRecv == 2
\* frames the peer sends in one behaviour
MaxFrames == 2
\* Connection.Read calls that return without error in one Receive call
MaxReads == 3
\* calls of Receive, of the senders (Close included), of Start, of Abort
MaxReceives == 2
MaxSends == 2
MaxStarts == 2
MaxAborts == 1

(***************************************************************************)
(* Values.                                                                 *)
(***************************************************************************)
\* 0x1e, the record separator that ends a frame of the text protocol
RS == 30

\* error values: nil, context.Canceled, an error of the Connection, an error
\* of the protocol's parser
NoErr == "nil"
Canceled == "context canceled"
IOErr == "io error"
ParseErr == "parse error"

\* interface{} values received: nil, or a parsed message with its payload
NilMsg == [isNil |-> TRUE, payload |-> <<>>]
ParsedMsg(p) == [isNil |-> FALSE, payload |-> p]

\* payloads the peer frames; the empty payload is not a valid message
Payloads == {<<>>, <<1>>, <<1, 2>>}
Frame(p) == p \o <<RS>>

\* the inputs of the typed senders and of Close
Targets == {"Foo"}
ArgLists == {<<>>, <<"1", "a">>}
InvocationIDs == {"i1"}
Items == {"item"}
Results == {"nil", "r"}
ErrorTexts == {"", "boom"}

VARIABLES
  Connected,    \* defaultHubConnection.Connected (int32, atomic)
  ctxDone,      \* c.context is cancelled (c.abort has been called)
  abortPc,      \* position of the caller of Abort
  nStart,       \* Start calls so far
  nCas,         \* Start calls whose compare-and-swap succeeded
  nAbort,       \* Abort calls so far
  cleared,      \* a Close or an Abort has stored 0 to Connected
  terminal,     \* a Close or an Abort has returned
  inbound,      \* bytes the peer has sent and no Read has returned yet
  nSent,        \* frames the peer has sent
  owed,         \* payloads of the frames sent that no Receive has answered yet
  rxPc,         \* position of the caller of Receive
  rxCalls,      \* Receive calls so far
  rxErr,        \* err of "case err := <-e" in Receive
  rxRet,        \* what the last Receive returned
  rxBranch,     \* the select branch the current/last Receive took
  rxAtAbort,    \* the current/last Receive was in flight when c.abort() ran
  m,            \* Receive's channel m (capacity 1)
  e,            \* Receive's channel e (capacity 1)
  gPc,          \* position of the read attempt (the goroutine of Receive)
  buf,          \* its bytes.Buffer
  chunk,        \* its data[:n]
  gRes,         \* the message and error it is about to send
  nReads,       \* Reads that returned without error in this Receive call
  rxStream,     \* the bytes those Reads returned, in order
  sPc,          \* position of the caller of a sender or of Close
  sCalls,       \* sender calls so far
  sOp,          \* the sender called
  sArgs,        \* its arguments
  sMsg,         \* the message it constructed
  sRet,         \* what the last sender call returned
  sBranch,      \* the select branch the current/last writeMessage took
  sAtAbort,     \* the current/last sender call was in flight when c.abort() ran
  we,           \* writeMessage's channel e (capacity 1)
  wPc,          \* position of the write attempt (the goroutine of writeMessage)
  wErr,         \* what Protocol.WriteMessage returned
  handed,       \* the messages handed to Protocol.WriteMessage in this call
  hPc,          \* position of the caller of NewHTTPConnection
  hCfg,         \* its address and options: header and query-string providers
  hHdr,         \* the http.Header the header provider hands out
  hStatus,      \* status code of the negotiate response (0: no response)
  hBody,        \* the negotiate response's Body: its content, and whether closed
  hNr,          \* the negotiateResponse decoded from the body
  hLog,         \* the requests issued, in order: negotiate POST, dial, SSE GET
  hRet          \* what NewHTTPConnection returned

lifeVars == <<Connected, ctxDone, abortPc, nStart, nCas, nAbort, cleared, terminal>>
peerVars == <<inbound, nSent, owed>>
rxVars == <<rxPc, rxCalls, rxErr, rxRet, rxBranch, rxAtAbort, m, e>>
gVars == <<gPc, buf, chunk, gRes, nReads, rxStream>>
sVars == <<sPc, sCalls, sOp, sArgs, sMsg, sRet, sBranch, sAtAbort, we>>
wVars == <<wPc, wErr, handed>>
httpVars == <<hPc, hCfg, hHdr, hStatus, hBody, hNr, hLog, hRet>>
vars == <<lifeVars, peerVars, rxVars, gVars, sVars, wVars, httpVars>>

NoRet == [msg |-> NilMsg, err |-> NoErr]
NoSend == [Type |-> 0]
NoSendRet == [msg |-> NoSend, err |-> NoErr]

\* values of the connection constructor before it is called
NoCfg == [provider |-> "none", auth |-> FALSE, query |-> FALSE, https |-> FALSE]
NoNr == [ConnectionID |-> <<>>, ConnectionToken |-> <<>>, AvailableTransports |-> <<>>]
NilConn == [kind |-> "nil", ConnectionID |-> <<>>]
NoURL == [scheme |-> "", path |-> <<>>, query |-> {}]
HTTPError(kind) == [kind |-> kind, method |-> "", url |-> NoURL, status |-> ""]
NilError == HTTPError("nil")
NoBody == [content |-> "none", closed |-> FALSE]

\* newHubConnection: Connected is 0, the context is not cancelled; no
\* NewHTTPConnection call has been made
Init ==
  /\ Connected = 0 /\ ctxDone = FALSE /\ abortPc = "idle"
  /\ nStart = 0 /\ nCas = 0 /\ nAbort = 0 /\ cleared = FALSE /\ terminal = FALSE
  /\ inbound = <<>> /\ nSent = 0 /\ owed = <<>>
  /\ rxPc = "idle" /\ rxCalls = 0 /\ rxErr = NoErr /\ rxRet = NoRet
  /\ rxBranch = "none" /\ rxAtAbort = FALSE /\ m = <<>> /\ e = <<>>
  /\ gPc = "none" /\ buf = <<>> /\ chunk = <<>> /\ gRes = NoRet
  /\ nReads = 0 /\ rxStream = <<>>
  /\ sPc = "idle" /\ sCalls = 0 /\ sOp = "none" /\ sArgs = <<>> /\ sMsg = NoSend
  /\ sRet = NoSendRet /\ sBranch = "none"
  /\ sAtAbort = FALSE /\ we = <<>>
  /\ wPc = "none" /\ wErr = NoErr /\ handed = <<>>
  /\ hPc = "idle" /\ hCfg = NoCfg /\ hHdr = {} /\ hStatus = 0 /\ hBody = NoBody
  /\ hNr = NoNr /\ hLog = <<>> /\ hRet = [conn |-> NilConn, err |-> NilError]

(***************************************************************************)
(* Lifecycle: Start, IsConnected, Abort.                                   *)
(***************************************************************************)
\* an atomic add in the place of the compare-and-swap
AddInt32(cur, old, new) == [val |-> cur + new, swapped |-> TRUE]

\* atomic.CompareAndSwapInt32(addr, old, new) on a word holding cur
CompareAndSwapInt32(cur, old, new) ==
  IF cur = old THEN [val |-> new, swapped |-> TRUE]
               ELSE [val |-> cur, swapped |-> FALSE]

Start ==
  /\ nStart < MaxStarts
  /\ LET r == CompareAndSwapInt32(Connected, 0, 1) IN
       /\ Connected' = r.val
       /\ nCas' = IF r.swapped THEN nCas + 1 ELSE nCas
  /\ nStart' = nStart + 1
  /\ UNCHANGED <<ctxDone, abortPc, nAbort, cleared, terminal>>
  /\ UNCHANGED <<peerVars, rxVars, gVars, sVars, wVars, httpVars>>

IsConnected == Connected = 1

\* context.Err()
CtxErr == IF ctxDone THEN Canceled ELSE NoErr

\* Abort, first statement: c.abort()
Abort_cancel ==
  /\ abortPc = "idle" /\ nAbort < MaxAborts
  /\ ctxDone' = TRUE
  /\ abortPc' = "swap"
  /\ nAbort' = nAbort + 1
  /\ rxAtAbort' = (rxAtAbort \/ rxPc # "idle")
  /\ sAtAbort' = (sAtAbort \/ sPc # "idle")
  /\ UNCHANGED <<Connected, nStart, nCas, cleared, terminal>>
  /\ UNCHANGED <<rxPc, rxCalls, rxErr, rxRet, rxBranch, m, e>>
  /\ UNCHANGED <<sPc, sCalls, sOp, sArgs, sMsg, sRet, sBranch, we>>
  /\ UNCHANGED <<peerVars, gVars, wVars, httpVars>>

\* Abort, second statement: atomic.SwapInt32(&c.Connected, 0), and return
Abort_swap ==
  /\ abortPc = "swap"
  /\ Connected' = 0
  /\ abortPc' = "idle"
  /\ cleared' = TRUE
  /\ terminal' = TRUE
  /\ UNCHANGED <<ctxDone, nStart, nCas, nAbort>>
  /\ UNCHANGED <<peerVars, rxVars, gVars, sVars, wVars, httpVars>>

(***************************************************************************)
(* The peer and the protocol's parser.                                     *)
(***************************************************************************)
\* the peer sends one frame; its bytes wait in the Connection
Peer_send(p) ==
  /\ nSent < MaxFrames
  /\ inbound' = inbound \o Frame(p)
  /\ nSent' = nSent + 1
  /\ owed' = Append(owed, p)
  /\ UNCHANGED <<lifeVars, rxVars, gVars, sVars, wVars, httpVars>>

HasRS(b) == \E i \in 1..Len(b) : b[i] = RS
FirstRS(b) == CHOOSE i \in 1..Len(b) : b[i] = RS /\ \A j \in 1..(i - 1) : b[j] # RS

\* HubProtocol.ReadMessage(&buf): reads the buffer up to the first record
\* separator. Without a separator the bytes read are gone from the buffer and
\* the message is incomplete; with one, the frame is parsed and the bytes after
\* it stay in the buffer.
ReadMessage(b) ==
  IF ~HasRS(b)
    THEN [message |-> NilMsg, complete |-> FALSE, err |-> "EOF", rest |-> <<>>]
    ELSE LET i == FirstRS(b)
             data == SubSeq(b, 1, i - 1)
         IN [message |-> IF data = <<>> THEN NilMsg ELSE ParsedMsg(data),
             complete |-> TRUE,
             err |-> IF data = <<>> THEN ParseErr ELSE NoErr,
             rest |-> SubSeq(b, i + 1, Len(b))]

(***************************************************************************)
(* Receive: the caller.                                                    *)
(***************************************************************************)
\* m := make(chan interface{}, 1); e := make(chan error, 1); go func() {...}()
\* with the attempt's declarations: var buf bytes.Buffer; data; var n int
Receive_spawn ==
  /\ rxPc = "idle" /\ rxCalls < MaxReceives
  /\ rxCalls' = rxCalls + 1
  /\ rxPc' = "select"
  /\ rxBranch' = "none"
  /\ rxAtAbort' = FALSE
  /\ rxErr' = NoErr
  /\ m' = <<>> /\ e' = <<>>
  /\ gPc' = "parse" /\ buf' = <<>> /\ chunk' = <<>> /\ gRes' = NoRet
  /\ nReads' = 0 /\ rxStream' = <<>>
  /\ rxRet' = NoRet
  /\ UNCHANGED <<lifeVars, peerVars, sVars, wVars, httpVars>>

\* select: case <-c.context.Done()
Receive_selectDone ==
  /\ rxPc = "select" /\ ctxDone
  /\ rxPc' = "drain"
  /\ rxBranch' = "cancel"
  /\ UNCHANGED <<rxCalls, rxErr, rxRet, rxAtAbort, m, e>>
  /\ UNCHANGED <<lifeVars, peerVars, gVars, sVars, wVars, httpVars>>

\* select: case err := <-e
Receive_selectErr ==
  /\ rxPc = "select" /\ e # <<>>
  /\ rxErr' = Head(e)
  /\ e' = Tail(e)
  /\ rxPc' = "recvM"
  /\ rxBranch' = "result"
  /\ UNCHANGED <<rxCalls, rxRet, rxAtAbort, m>>
  /\ UNCHANGED <<lifeVars, peerVars, gVars, sVars, wVars, httpVars>>

\* a cancelled Receive that returns without waiting for its attempt
Receive_drain_noWait ==
  /\ rxPc = "drain"
  /\ rxRet' = [msg |-> NilMsg, err |-> CtxErr]
  /\ rxPc' = "idle"
  /\ UNCHANGED <<rxCalls, rxErr, rxBranch, rxAtAbort, m, e>>
  /\ UNCHANGED <<lifeVars, peerVars, gVars, sVars, wVars, httpVars>>

\* a cancelled Receive that returns the error it drained from e
Receive_drain_attemptErr ==
  /\ rxPc = "drain" /\ e # <<>>
  /\ e' = Tail(e)
  /\ rxRet' = [msg |-> NilMsg, err |-> Head(e)]
  /\ rxPc' = "idle"
  /\ UNCHANGED <<rxCalls, rxErr, rxBranch, rxAtAbort, m>>
  /\ UNCHANGED <<lifeVars, peerVars, gVars, sVars, wVars, httpVars>>

\* <-e; return nil, c.context.Err()
Receive_drain ==
  /\ rxPc = "drain" /\ e # <<>>
  /\ e' = Tail(e)
  /\ rxRet' = [msg |-> NilMsg, err |-> CtxErr]
  /\ rxPc' = "idle"
  /\ UNCHANGED <<rxCalls, rxErr, rxBranch, rxAtAbort, m>>
  /\ UNCHANGED <<lifeVars, peerVars, gVars, sVars, wVars, httpVars>>

\* the frames still owed once a Receive call returns on its result branch with
\* err: a result of the parser answers the oldest frame, an error of the
\* Connection answers none
Answered(err) == IF err # IOErr /\ owed # <<>> THEN Tail(owed) ELSE owed

\* a Receive that returns the message and drops the error
Receive_recvM_dropsErr ==
  /\ rxPc = "recvM" /\ m # <<>>
  /\ rxRet' = [msg |-> Head(m), err |-> NoErr]
  /\ m' = Tail(m)
  /\ rxPc' = "idle"
  /\ owed' = Answered(rxErr)
  /\ UNCHANGED <<rxCalls, rxErr, rxBranch, rxAtAbort, e>>
  /\ UNCHANGED <<inbound, nSent>>
  /\ UNCHANGED <<lifeVars, gVars, sVars, wVars, httpVars>>

\* return <-m, err
Receive_recvM ==
  /\ rxPc = "recvM" /\ m # <<>>
  /\ rxRet' = [msg |-> Head(m), err |-> rxErr]
  /\ m' = Tail(m)
  /\ rxPc' = "idle"
  /\ owed' = Answered(rxErr)
  /\ UNCHANGED <<rxCalls, rxErr, rxBranch, rxAtAbort, e>>
  /\ UNCHANGED <<inbound, nSent>>
  /\ UNCHANGED <<lifeVars, gVars, sVars, wVars, httpVars>>

(***************************************************************************)
(* Receive: the read attempt.                                              *)
(***************************************************************************)
\* an attempt that does not write data[:n] back
Refill_dropped(rest, d) == rest

\* buf.Write(data[:n]) after ReadMessage took the bytes out of buf
Refill(rest, d) == rest \o d

\* an attempt that hands ReadMessage a copy of the buffer: the bytes of an
\* incomplete message stay in buf and the refill adds the last chunk again
Receive_ReadMessage_keepsBuf ==
  /\ gPc = "parse"
  /\ LET r == ReadMessage(buf) IN
       IF ~r.complete
         THEN /\ buf' = Refill(buf, chunk)
              /\ gPc' = "read"
              /\ UNCHANGED gRes
         ELSE /\ buf' = r.rest
              /\ gRes' = [msg |-> r.message, err |-> r.err]
              /\ gPc' = "sendM"
  /\ UNCHANGED <<chunk, nReads, rxStream>>
  /\ UNCHANGED <<lifeVars, peerVars, rxVars, sVars, wVars, httpVars>>

\* message, complete, err := c.Protocol.ReadMessage(&buf), and the branch on
\* complete up to the next blocking call or channel send
Receive_ReadMessage ==
  /\ gPc = "parse"
  /\ LET r == ReadMessage(buf) IN
       IF ~r.complete
         THEN /\ buf' = Refill(r.rest, chunk)
              /\ gPc' = "read"
              /\ UNCHANGED gRes
         ELSE /\ buf' = r.rest
              /\ gRes' = [msg |-> r.message, err |-> r.err]
              /\ gPc' = "sendM"
  /\ UNCHANGED <<chunk, nReads, rxStream>>
  /\ UNCHANGED <<lifeVars, peerVars, rxVars, sVars, wVars, httpVars>>

Min(a, b) == IF a < b THEN a ELSE b

\* n, err = c.Connection.Read(data) returns k <= len(data) bytes and no error;
\* buf.Write(data[:n])
Connection_Read_ok(k) ==
  /\ gPc = "read" /\ nReads < MaxReads
  /\ k <= Min(MaxRecv, Len(inbound))
  /\ chunk' = SubSeq(inbound, 1, k)
  /\ inbound' = SubSeq(inbound, k + 1, Len(inbound))
  /\ buf' = buf \o chunk'
  /\ rxStream' = rxStream \o chunk'
  /\ nReads' = nReads + 1
  /\ gPc' = "parse"
  /\ UNCHANGED <<gRes, nSent, owed>>
  /\ UNCHANGED <<lifeVars, rxVars, sVars, wVars, httpVars>>

\* n, err = c.Connection.Read(data) returns an error: the attempt will send
\* nil and the error
Connection_Read_err ==
  /\ gPc = "read"
  /\ gRes' = [msg |-> NilMsg, err |-> IOErr]
  /\ gPc' = "sendM"
  /\ UNCHANGED <<buf, chunk, nReads, rxStream>>
  /\ UNCHANGED <<lifeVars, peerVars, rxVars, sVars, wVars, httpVars>>

\* m <- message (or m <- nil)
Receive_sendM ==
  /\ gPc = "sendM" /\ Len(m) < 1
  /\ m' = Append(m, gRes.msg)
  /\ gPc' = "sendE"
  /\ UNCHANGED <<rxPc, rxCalls, rxErr, rxRet, rxBranch, rxAtAbort, e>>
  /\ UNCHANGED <<buf, chunk, gRes, nReads, rxStream>>
  /\ UNCHANGED <<lifeVars, peerVars, sVars, wVars, httpVars>>

\* a read attempt that sends its error on m, the channel of the message
Receive_sendE_toM ==
  /\ gPc = "sendE" /\ Len(m) < 1
  /\ m' = Append(m, gRes.err)
  /\ gPc' = "done"
  /\ UNCHANGED <<rxPc, rxCalls, rxErr, rxRet, rxBranch, rxAtAbort, e>>
  /\ UNCHANGED <<buf, chunk, gRes, nReads, rxStream>>
  /\ UNCHANGED <<lifeVars, peerVars, sVars, wVars, httpVars>>

\* a read attempt that ends without sending its error
Receive_sendE_dropped ==
  /\ gPc = "sendE"
  /\ gPc' = "done"
  /\ UNCHANGED <<rxVars, buf, chunk, gRes, nReads, rxStream>>
  /\ UNCHANGED <<lifeVars, peerVars, sVars, wVars, httpVars>>

\* e <- err; break
Receive_sendE ==
  /\ gPc = "sendE" /\ Len(e) < 1
  /\ e' = Append(e, gRes.err)
  /\ gPc' = "done"
  /\ UNCHANGED <<rxPc, rxCalls, rxErr, rxRet, rxBranch, rxAtAbort, m>>
  /\ UNCHANGED <<buf, chunk, gRes, nReads, rxStream>>
  /\ UNCHANGED <<lifeVars, peerVars, sVars, wVars, httpVars>>

(***************************************************************************)
(* The typed senders and Close: the caller.                                *)
(***************************************************************************)
sendOnlyHubInvocationMessage(target, args) ==
  [Type |-> 1, Target |-> target, Arguments |-> args]

streamItemMessage(id, item) ==
  [Type |-> 2, InvocationID |-> id, Item |-> item]

completionMessage(id, result, error) ==
  [Type |-> 3, InvocationID |-> id, Result |-> result, Error |-> error]

hubMessage == [Type |-> 6]

closeMessage(error) ==
  [Type |-> 7, Error |-> error, AllowReconnect |-> TRUE]

\* a sender is entered: its message is constructed and writeMessage is about
\* to be called with it
Enter(op, args, msg) ==
  /\ sPc = "idle" /\ sCalls < MaxSends
  /\ sCalls' = sCalls + 1
  /\ sOp' = op
  /\ sArgs' = args
  /\ sMsg' = msg
  /\ sPc' = "write"
  /\ sBranch' = "none"
  /\ sAtAbort' = FALSE
  /\ we' = <<>>
  /\ wPc' = "none" /\ wErr' = NoErr /\ handed' = <<>>
  /\ sRet' = NoSendRet
  /\ UNCHANGED <<peerVars, rxVars, gVars, httpVars>>

SendInvocation(target, args) ==
  /\ Enter("SendInvocation", [target |-> target, args |-> args],
           sendOnlyHubInvocationMessage(target, args))
  /\ UNCHANGED lifeVars

StreamItem(id, item) ==
  /\ Enter("StreamItem", [id |-> id, item |-> item], streamItemMessage(id, item))
  /\ UNCHANGED lifeVars

Completion(id, result, error) ==
  /\ Enter("Completion", [id |-> id, result |-> result, error |-> error],
           completionMessage(id, result, error))
  /\ UNCHANGED lifeVars

Ping ==
  /\ Enter("Ping", [none |-> TRUE], hubMessage)
  /\ UNCHANGED lifeVars

\* a Close that does not store 0 to Connected
Close_noStore(error) ==
  /\ Enter("Close", [error |-> error], closeMessage(error))
  /\ cleared' = TRUE
  /\ UNCHANGED <<Connected, ctxDone, abortPc, nStart, nCas, nAbort, terminal>>

\* a Close that also cancels the context
Close_cancels(error) ==
  /\ Enter("Close", [error |-> error], closeMessage(error))
  /\ Connected' = 0
  /\ cleared' = TRUE
  /\ ctxDone' = TRUE
  /\ UNCHANGED <<abortPc, nStart, nCas, nAbort, terminal>>

\* atomic.StoreInt32(&c.Connected, 0), then the close message is constructed
Close(error) ==
  /\ Enter("Close", [error |-> error], closeMessage(error))
  /\ Connected' = 0
  /\ cleared' = TRUE
  /\ UNCHANGED <<ctxDone, abortPc, nStart, nCas, nAbort, terminal>>

\* writeMessage: e := make(chan error, 1); go func() {...}()
writeMessage_spawn ==
  /\ sPc = "write"
  /\ we' = <<>>
  /\ wPc' = "call"
  /\ sPc' = "select"
  /\ UNCHANGED <<sCalls, sOp, sArgs, sMsg, sRet, sBranch, sAtAbort>>
  /\ UNCHANGED <<wErr, handed>>
  /\ UNCHANGED <<lifeVars, peerVars, rxVars, gVars, httpVars>>

\* select: case <-c.context.Done()
writeMessage_selectDone ==
  /\ sPc = "select" /\ ctxDone
  /\ sPc' = "drain"
  /\ sBranch' = "cancel"
  /\ UNCHANGED <<sCalls, sOp, sArgs, sMsg, sRet, sAtAbort, we>>
  /\ UNCHANGED <<lifeVars, peerVars, rxVars, gVars, wVars, httpVars>>

\* a sender that returns the zero message when the write failed
Return_zeroOnError(err) ==
  /\ sRet' = [msg |-> IF err = NoErr THEN sMsg ELSE NoSend, err |-> err]
  /\ sPc' = "idle"
  /\ terminal' = (terminal \/ sOp = "Close")
  /\ UNCHANGED <<Connected, ctxDone, abortPc, nStart, nCas, nAbort, cleared>>

\* the sender returns (message, err); a Close that returns ends the session
Return(err) ==
  /\ sRet' = [msg |-> sMsg, err |-> err]
  /\ sPc' = "idle"
  /\ terminal' = (terminal \/ sOp = "Close")
  /\ UNCHANGED <<Connected, ctxDone, abortPc, nStart, nCas, nAbort, cleared>>

\* select: case err := <-e: return err
writeMessage_selectErr ==
  /\ sPc = "select" /\ we # <<>>
  /\ we' = Tail(we)
  /\ sBranch' = "result"
  /\ Return(Head(we))
  /\ UNCHANGED <<sCalls, sOp, sArgs, sMsg, sAtAbort>>
  /\ UNCHANGED <<peerVars, rxVars, gVars, wVars, httpVars>>

\* <-e; return c.context.Err()
writeMessage_drain ==
  /\ sPc = "drain" /\ we # <<>>
  /\ we' = Tail(we)
  /\ Return(CtxErr)
  /\ UNCHANGED <<sCalls, sOp, sArgs, sMsg, sBranch, sAtAbort>>
  /\ UNCHANGED <<peerVars, rxVars, gVars, wVars, httpVars>>

(***************************************************************************)
(* writeMessage: the write attempt.                                        *)
(***************************************************************************)
\* the attempt calls c.Protocol.WriteMessage(message, c.Connection)
WriteMessage_call ==
  /\ wPc = "call"
  /\ handed' = Append(handed, sMsg)
  /\ wPc' = "writing"
  /\ UNCHANGED wErr
  /\ UNCHANGED <<lifeVars, peerVars, rxVars, gVars, sVars, httpVars>>

\* Protocol.WriteMessage returns nil or the error of the Connection
WriteMessage_return(err) ==
  /\ wPc = "writing"
  /\ wErr' = err
  /\ wPc' = "sendE"
  /\ UNCHANGED handed
  /\ UNCHANGED <<lifeVars, peerVars, rxVars, gVars, sVars, httpVars>>

\* e <- (the value WriteMessage returned)
writeMessage_sendE ==
  /\ wPc = "sendE" /\ Len(we) < 1
  /\ we' = Append(we, wErr)
  /\ wPc' = "done"
  /\ UNCHANGED <<sPc, sCalls, sOp, sArgs, sMsg, sRet, sBranch, sAtAbort>>
  /\ UNCHANGED <<wErr, handed>>
  /\ UNCHANGED <<lifeVars, peerVars, rxVars, gVars, httpVars>>

(***************************************************************************)
(* NewHTTPConnection: the negotiation and the choice of the transport.     *)
(* A step is the code up to and including one network call.                *)
(***************************************************************************)
hubVars == <<lifeVars, peerVars, rxVars, gVars, sVars, wVars>>

\* http.Header and url.Values as the set of their <<name, value>> pairs; a
\* value is the sequence of the pieces of its string, "" being <<>>
Get(h, name) ==
  IF \E kv \in h : kv[1] = name THEN (CHOOSE kv \in h : kv[1] = name)[2] ELSE <<>>
Del(h, name) == {kv \in h : kv[1] # name}
Set(h, name, value) == Del(h, name) \cup {<<name, value>>}

\* strings.ReplaceAll(s, old, new) on the pieces of s
ReplaceAll(s, old, new) ==
  IF new = "" THEN SelectSeq(s, LAMBDA x : x # old)
              ELSE [i \in 1..Len(s) |-> IF s[i] = old THEN new ELSE s[i]]

\* the inputs of a call: the kind of header provider (none; one that hands
\* out the same http.Header on every call; one that builds a fresh one per
\* call), whether its headers carry Authorization: Bearer XYZ, whether a
\* query-string provider is set, the scheme of the address
Providers == {"none", "shared", "fresh"}
Bearer == <<"Bearer ", "XYZ">>
ProviderHeaders(auth) ==
  {<<"X-Api", <<"v1">>>>} \cup (IF auth THEN {<<"Authorization", Bearer>>} ELSE {})
QueryString == {<<"tenant", <<"t1">>>>}
Address(cfg) ==
  [scheme |-> IF cfg.https THEN "https" ELSE "http", path |-> <<"hub">>, query |-> {}]

\* what the server answers to the negotiate request
StatusCodes == {200, 204, 500}
TransportNames == {"WebSockets", "ServerSentEvents", "LongPolling"}
Formats(list) == [isNil |-> FALSE, list |-> list]
NilFormats == [isNil |-> TRUE, list |-> <<>>]
Transport(name) == [transport |-> name, transferFormats |-> Formats(<<"Text">>)]
TransportLists ==
  {<<>>} \cup {<<Transport(a)>> : a \in TransportNames}
         \cup {<<Transport(ab[1]), Transport(ab[2])>> :
                 ab \in {x \in TransportNames \X TransportNames : x[1] # x[2]}}
NegotiateResponses ==
  [ConnectionID : {<<>>, <<"cid">>}, ConnectionToken : {<<>>, <<"tok">>},
   AvailableTransports : TransportLists]
Bodies ==
  {[state |-> st, nr |-> NoNr] : st \in {"unreadable", "malformed"}}
    \cup {[state |-> "json", nr |-> n] : n \in NegotiateResponses}

\* NewHTTPConnection is called: the options are applied to httpConn
NewHTTPConnection(provider, auth, query, https) ==
  /\ hPc = "idle"
  /\ provider = "none" => ~auth
  /\ hCfg' = [provider |-> provider, auth |-> auth, query |-> query, https |-> https]
  /\ hHdr' = IF provider = "none" THEN {} ELSE ProviderHeaders(auth)
  /\ hPc' = "negotiate"
  /\ UNCHANGED <<hStatus, hBody, hNr, hLog, hRet>>
  /\ UNCHANGED hubVars

\* POST {address}/negotiate with the query string and the headers of the
\* providers
NegotiateRequest ==
  [kind |-> "POST",
   url |-> [Address(hCfg) EXCEPT !.path = @ \o <<"negotiate">>,
                                 !.query = IF hCfg.query THEN QueryString ELSE {}],
   header |-> IF hCfg.provider # "none" THEN hHdr ELSE {}]

\* httpConn.client.Do(req) returns an error: return nil, err
Negotiate_Do_err ==
  /\ hPc = "negotiate"
  /\ hLog' = Append(hLog, NegotiateRequest @@ [ok |-> FALSE])
  /\ hRet' = [conn |-> NilConn, err |-> HTTPError("http")]
  /\ hPc' = "done"
  /\ UNCHANGED <<hCfg, hHdr, hStatus, hBody, hNr>>
  /\ UNCHANGED hubVars

\* resp.Status
StatusText(code) ==
  CASE code = 200 -> "200 OK"
    [] code = 204 -> "204 No Content"
    [] code = 500 -> "500 Internal Server Error"
    [] OTHER -> ""

\* fmt.Errorf("%v %v -> %v", req.Method, req.URL.String(), resp.Status)
StatusError(req, code) ==
  [kind |-> "status", method |-> req.kind, url |-> req.url, status |-> StatusText(code)]

\* a status check that accepts every 2xx status
StatusOK_2xx(code) == code \in 200..299

\* resp.StatusCode != 200 is the failure
StatusOK(code) == code = 200

\* httpConn.client.Do(req) returns a response: the status check, io.ReadAll,
\* json.Unmarshal; every return on the way closes resp.Body (the deferred
\* call), which otherwise stays open until the transport step returns
Negotiate_Do(code, body) ==
  /\ hPc = "negotiate"
  /\ LET req == NegotiateRequest @@ [ok |-> TRUE] IN
       /\ hLog' = Append(hLog, req)
       /\ hStatus' = code
       /\ IF StatusOK(code) /\ body.state = "json"
            THEN /\ hNr' = body.nr
                 /\ hBody' = [content |-> body.state, closed |-> FALSE]
                 /\ hPc' = "select"
                 /\ UNCHANGED hRet
            ELSE /\ hRet' = [conn |-> NilConn,
                             err |-> IF ~StatusOK(code) THEN StatusError(req, code)
                                     ELSE IF body.state = "unreadable"
                                            THEN HTTPError("read")
                                            ELSE HTTPError("decode")]
                 /\ hBody' = [content |-> body.state, closed |-> TRUE]
                 /\ hPc' = "done"
                 /\ UNCHANGED hNr
  /\ UNCHANGED <<hCfg, hHdr>>
  /\ UNCHANGED hubVars

\* the routing id that prefers the connection id
RoutingID_idFirst(nr) ==
  IF nr.ConnectionID # <<>> THEN nr.ConnectionID ELSE nr.ConnectionToken

\* the id query parameter: the connection token, or the connection id when
\* the token is empty
RoutingID(nr) ==
  IF nr.ConnectionToken # <<>> THEN nr.ConnectionToken ELSE nr.ConnectionID

\* reqURL: url.Parse(address) with q.Set("id", ...)
TransportURL(cfg, nr) ==
  [Address(cfg) EXCEPT !.query = Set(@, "id", RoutingID(nr))]

\* nr.getTransferFormats(name): the transfer formats of the first transport of
\* that name in the response, nil when there is none
getTransferFormats(nr, name) ==
  LET ts == nr.AvailableTransports
      I == {i \in 1..Len(ts) : ts[i].transport = name}
  IN IF I = {} THEN NilFormats
               ELSE ts[CHOOSE i \in I : \A j \in I : i <= j].transferFormats

\* a switch that tries ServerSentEvents before WebSockets
SelectTransport_sseFirst(nr) ==
  IF ~getTransferFormats(nr, "ServerSentEvents").isNil THEN "ServerSentEvents"
  ELSE IF ~getTransferFormats(nr, "WebSockets").isNil THEN "WebSockets"
  ELSE "none"

\* a switch whose last case is the default
SelectTransport_sseDefault(nr) ==
  IF ~getTransferFormats(nr, "WebSockets").isNil THEN "WebSockets"
  ELSE "ServerSentEvents"

\* the switch: the first case that matches, in the order of the code
SelectTransport(nr) ==
  IF ~getTransferFormats(nr, "WebSockets").isNil THEN "WebSockets"
  ELSE IF ~getTransferFormats(nr, "ServerSentEvents").isNil THEN "ServerSentEvents"
  ELSE "none"

\* what the second call of httpConn.headers() hands to opts.HTTPHeader after
\* the first call's result has been stripped of Authorization: the stripped map
\* itself when the provider hands out one shared http.Header, the provider's
\* unstripped headers when it builds a fresh one per call
HeadersAgain(provider, stripped, fresh) ==
  IF provider = "shared" THEN stripped ELSE fresh

\* a dial that, when it fails, goes on to the next transport
websocket_Dial_fallback(ok) ==
  /\ hPc = "select" /\ SelectTransport(hNr) = "WebSockets"
  /\ LET reqURL == TransportURL(hCfg, hNr)
         wsURL == [reqURL EXCEPT !.scheme = IF @ = "https" THEN "wss" ELSE "ws"]
         authorization == Get(hHdr, "Authorization")
         accessToken == IF authorization # <<>>
                          THEN ReplaceAll(authorization, "Bearer ", "") ELSE <<>>
         stripped == IF authorization # <<>> THEN Del(hHdr, "Authorization") ELSE hHdr
         again == HeadersAgain(hCfg.provider, stripped, hHdr)
         dial == IF hCfg.provider = "none"
                   THEN [kind |-> "DIAL", url |-> wsURL, header |-> {}, ok |-> ok]
                   ELSE [kind |-> "DIAL",
                         url |-> [wsURL EXCEPT !.query = Set(@, "access_token", accessToken)],
                         header |-> again, ok |-> ok]
     IN /\ hHdr' = again
        /\ hLog' = Append(hLog, dial)
        /\ IF ok
             THEN /\ hRet' = [conn |-> [kind |-> "websocket",
                                        ConnectionID |-> hNr.ConnectionID],
                              err |-> NilError]
                  /\ hPc' = "done" /\ hBody' = [hBody EXCEPT !.closed = TRUE]
                  /\ UNCHANGED hNr
             ELSE /\ hNr' = [hNr EXCEPT !.AvailableTransports =
                               SelectSeq(@, LAMBDA t : t.transport # "WebSockets")]
                  /\ UNCHANGED <<hRet, hPc, hBody>>
  /\ UNCHANGED <<hCfg, hStatus>>
  /\ UNCHANGED hubVars

\* case WebSockets: the scheme becomes wss or ws; with a header provider the
\* bearer token moves to the access_token query parameter and opts.HTTPHeader
\* is httpConn.headers(), called again; websocket.Dial succeeds or fails
websocket_Dial(ok) ==
  /\ hPc = "select" /\ SelectTransport(hNr) = "WebSockets"
  /\ LET reqURL == TransportURL(hCfg, hNr)
         wsURL == [reqURL EXCEPT !.scheme = IF @ = "https" THEN "wss" ELSE "ws"]
         authorization == Get(hHdr, "Authorization")
         accessToken == IF authorization # <<>>
                          THEN ReplaceAll(authorization, "Bearer ", "") ELSE <<>>
         stripped == IF authorization # <<>> THEN Del(hHdr, "Authorization") ELSE hHdr
         again == HeadersAgain(hCfg.provider, stripped, hHdr)
         dial == IF hCfg.provider = "none"
                   THEN [kind |-> "DIAL", url |-> wsURL, header |-> {}, ok |-> ok]
                   ELSE [kind |-> "DIAL",
                         url |-> [wsURL EXCEPT !.query = Set(@, "access_token", accessToken)],
                         header |-> again, ok |-> ok]
     IN /\ hHdr' = again
        /\ hLog' = Append(hLog, dial)
        /\ hRet' = IF ok THEN [conn |-> [kind |-> "websocket",
                                         ConnectionID |-> hNr.ConnectionID],
                               err |-> NilError]
                         ELSE [conn |-> NilConn, err |-> HTTPError("dial")]
  /\ hPc' = "done" /\ hBody' = [hBody EXCEPT !.closed = TRUE]
  /\ UNCHANGED <<hCfg, hStatus, hNr>>
  /\ UNCHANGED hubVars

\* case ServerSentEvents: GET reqURL with the provider's headers and Accept:
\* text/event-stream (set on the map the provider handed out); client.Do
\* fails, or newClientSSEConnection fails, or the connection is made
SSE_Do(outcome) ==
  /\ hPc = "select" /\ SelectTransport(hNr) = "ServerSentEvents"
  /\ LET header == Set(IF hCfg.provider # "none" THEN hHdr ELSE {},
                       "Accept", <<"text/event-stream">>)
     IN /\ hHdr' = IF hCfg.provider = "shared" THEN header ELSE hHdr
        /\ hLog' = Append(hLog, [kind |-> "GET", url |-> TransportURL(hCfg, hNr),
                                 header |-> header, ok |-> outcome # "error"])
  /\ hRet' = CASE outcome = "ok" ->
                    [conn |-> [kind |-> "sse", ConnectionID |-> hNr.ConnectionID],
                     err |-> NilError]
               [] outcome = "error" -> [conn |-> NilConn, err |-> HTTPError("http")]
               [] OTHER -> [conn |-> NilConn, err |-> HTTPError("sse")]
  /\ hPc' = "done" /\ hBody' = [hBody EXCEPT !.closed = TRUE]
  /\ UNCHANGED <<hCfg, hStatus, hNr>>
  /\ UNCHANGED hubVars

\* no case of the switch matches: return conn, nil with conn still nil
NoTransport ==
  /\ hPc = "select" /\ SelectTransport(hNr) = "none"
  /\ hRet' = [conn |-> NilConn, err |-> NilError]
  /\ hPc' = "done" /\ hBody' = [hBody EXCEPT !.closed = TRUE]
  /\ UNCHANGED <<hCfg, hHdr, hStatus, hNr, hLog>>
  /\ UNCHANGED hubVars

(***************************************************************************)
(* The specifications.                                                     *)
(***************************************************************************)
\* the steps of the caller of Receive past the call's entry
RxCaller ==
  \/ Receive_selectDone \/ Receive_selectErr \/ Receive_drain \/ Receive_recvM

\* the steps of the read attempt that need nothing from the Connection
RxAttempt ==
  \/ Receive_ReadMessage \/ Receive_sendM \/ Receive_sendE

\* the same for a sender and its write attempt
TxCaller ==
  \/ writeMessage_spawn \/ writeMessage_selectDone \/ writeMessage_selectErr
  \/ writeMessage_drain

TxAttempt ==
  \/ WriteMessage_call \/ writeMessage_sendE

\* the environment of a session: its lifecycle callers
Lifecycle ==
  \/ Start
  \/ Abort_cancel
  \/ Abort_swap

\* Receive with the read attempt, the peer and the Connection it reads
Receiving ==
  \/ \E p \in Payloads : Peer_send(p)
  \/ Receive_spawn
  \/ Receive_selectDone
  \/ Receive_selectErr
  \/ Receive_drain
  \/ Receive_recvM
  \/ Receive_ReadMessage
  \/ \E k \in 0..MaxRecv : Connection_Read_ok(k)
  \/ Connection_Read_err
  \/ Receive_sendM
  \/ Receive_sendE

\* the senders and Close with the write attempt
Sending ==
  \/ \E t \in Targets, a \in ArgLists : SendInvocation(t, a)
  \/ \E i \in InvocationIDs, it \in Items : StreamItem(i, it)
  \/ \E i \in InvocationIDs, r \in Results, er \in ErrorTexts : Completion(i, r, er)
  \/ Ping
  \/ \E er \in ErrorTexts : Close(er)
  \/ writeMessage_spawn
  \/ writeMessage_selectDone
  \/ writeMessage_selectErr
  \/ writeMessage_drain
  \/ WriteMessage_call
  \/ \E er \in {NoErr, IOErr} : WriteMessage_return(er)
  \/ writeMessage_sendE

\* Receive calls, one after the other, on a session that may be aborted
NextRx ==
  \/ Abort_cancel
  \/ Abort_swap
  \/ Receiving

SpecRx == Init /\ [][NextRx]_vars

\* the messages of a peer that sends valid messages only, one of them longer
\* than two Reads can return
StreamPayloads == (Payloads \ {<<>>}) \cup {<<1, 2, 1, 2>>}

\* Receive calls, one after the other, on a session that is not aborted and a
\* Connection that does not fail: the peer sends valid messages and every Read
\* returns at least one byte, so that a frame arrives in chunks
NextStream ==
  \/ \E p \in StreamPayloads : Peer_send(p)
  \/ Receive_spawn
  \/ Receive_selectErr
  \/ Receive_recvM
  \/ Receive_ReadMessage
  \/ \E k \in 1..MaxRecv : Connection_Read_ok(k)
  \/ Receive_sendM
  \/ Receive_sendE

SpecStream == Init /\ [][NextStream]_vars

\* sender and Close calls, one after the other, with Start and Abort
NextTx ==
  \/ Lifecycle
  \/ Sending

SpecTx == Init /\ [][NextTx]_vars

\* A Receive call, sender and Close calls and Abort, running concurrently.
\* The peer sends one frame, and the sender inputs are single values.
Next ==
  \/ Abort_cancel
  \/ Abort_swap
  \/ \E p \in Payloads : nSent = 0 /\ Peer_send(p)
  \/ rxCalls = 0 /\ Receive_spawn
  \/ Receive_selectDone
  \/ Receive_selectErr
  \/ Receive_drain
  \/ Receive_recvM
  \/ Receive_ReadMessage
  \/ \E k \in 0..MaxRecv : Connection_Read_ok(k)
  \/ Connection_Read_err
  \/ Receive_sendM
  \/ Receive_sendE
  \/ SendInvocation("Foo", <<"1", "a">>)
  \/ StreamItem("i1", "item")
  \/ Completion("i1", "r", "")
  \/ Ping
  \/ Close("boom")
  \/ writeMessage_spawn
  \/ writeMessage_selectDone
  \/ writeMessage_selectErr
  \/ writeMessage_drain
  \/ WriteMessage_call
  \/ \E er \in {NoErr, IOErr} : WriteMessage_return(er)
  \/ writeMessage_sendE

Spec == Init /\ [][Next]_vars

\* one call of NewHTTPConnection with every input, every answer of the server
\* to the negotiate request and every outcome of the transport's request
NextHTTP ==
  \/ \E pr \in Providers, au \in BOOLEAN, qs \in BOOLEAN, tls \in BOOLEAN :
       NewHTTPConnection(pr, au, qs, tls)
  \/ Negotiate_Do_err
  \/ \E code \in StatusCodes, body \in Bodies : Negotiate_Do(code, body)
  \/ \E ok \in BOOLEAN : websocket_Dial(ok)
  \/ \E outcome \in {"ok", "error", "stream"} : SSE_Do(outcome)
  \/ NoTransport

SpecHTTP == Init /\ [][NextHTTP]_vars

\* The Go scheduler runs every goroutine that can take a step. Nothing is
\* assumed of the callers entering calls, of the peer or of the Connection:
\* a Read or a WriteMessage need not return.
Fairness ==
  /\ WF_vars(Abort_swap)
  /\ WF_vars(RxCaller)
  /\ WF_vars(RxAttempt)
  /\ WF_vars(TxCaller)
  /\ WF_vars(TxAttempt)

FairSpecRx == SpecRx /\ Fairness

(***************************************************************************)
(* Properties.                                                             *)
(***************************************************************************)
\* a Receive call has been entered and has not returned
RxPending == rxPc # "idle"
\* a Receive call has returned
RxReturned == rxPc = "idle" /\ rxCalls > 0
\* the read attempt's last ReadMessage or Read has returned: only its two
\* channel sends are left
AttemptFinishing == gPc \in {"sendM", "sendE", "done"}

\* C1 as stated: after Abort has cancelled the context, a Receive call that
\* was in flight at that moment and is still pending goes on to return
\* whatever the Connection does, also while its Read has not returned: in
\* every such state the caller or its read attempt has a step to take that
\* needs nothing from the Connection (otherwise the call stays blocked for as
\* long as Read does).
C1_AbortUnblocksReceive ==
  (ctxDone /\ rxAtAbort /\ RxPending) => ENABLED (RxCaller \/ RxAttempt)

\* C1, amended: after Abort has cancelled the context, a pending Receive call
\* returns once the last ReadMessage or Read of its read attempt has returned;
\* nothing is promised while the attempt is still inside Connection.Read.
C1_AbortUnblocksFinishedReceive ==
  (ctxDone /\ RxPending /\ AttemptFinishing) ~> ~RxPending

\* a Receive call that was in flight when Abort ran has returned the
\* cancellation error after draining its attempt
C1_Witness ==
  /\ RxReturned /\ rxAtAbort /\ rxBranch = "cancel"
  /\ rxRet.err = Canceled /\ nReads > 0

\* a sender or Close call has returned
TxReturned == sPc = "idle" /\ sCalls > 0

\* C2: join before return. A Receive call or a sender call (writeMessage) that
\* has returned has no attempt still running, and a call that returned on the
\* cancellation branch returned the cancellation error with its attempt done.
C2_JoinBeforeReturn ==
  /\ RxReturned => gPc = "done"
  /\ TxReturned => wPc = "done"
  /\ (RxReturned /\ rxBranch = "cancel") => (rxRet.err = Canceled /\ e = <<>>)
  /\ (TxReturned /\ sBranch = "cancel") => (sRet.err = Canceled /\ we = <<>>)

\* a Receive call and a sender call have both returned on the cancellation
\* branch, the Receive after a Read that returned after the cancellation
C2_Witness ==
  /\ RxReturned /\ rxBranch = "cancel" /\ gPc = "done" /\ nReads > 0
  /\ TxReturned /\ sBranch = "cancel" /\ wPc = "done"

\* C3 as stated: a Receive or sender call that was in flight when Abort
\* cancelled the context returns the cancellation error (Receive with a nil
\* message), in every interleaving.
C3_InFlightReturnsCanceled ==
  /\ (RxReturned /\ rxAtAbort) => rxRet = [msg |-> NilMsg, err |-> Canceled]
  /\ (TxReturned /\ sAtAbort) => sRet.err = Canceled

\* C3, amended: such a call returns the cancellation error when its select
\* takes the cancellation branch, and exactly its attempt's own result when
\* its select takes the result branch (the attempt had delivered before the
\* select ran); Receive never returns (nil, nil).
C3_InFlightReturnsCanceledOrResult ==
  /\ (RxReturned /\ rxAtAbort) =>
       /\ rxBranch = "cancel" => rxRet = [msg |-> NilMsg, err |-> Canceled]
       /\ rxBranch = "result" => rxRet = gRes
       /\ rxRet # [msg |-> NilMsg, err |-> NoErr]
  /\ (TxReturned /\ sAtAbort) =>
       /\ sBranch = "cancel" => sRet.err = Canceled
       /\ sBranch = "result" => sRet.err = wErr

\* a Receive that was in flight when Abort ran has returned a parsed message
\* with nil error, and a sender in flight at the Abort has returned nil
C3_Witness ==
  /\ RxReturned /\ rxAtAbort /\ rxBranch = "result"
  /\ ~rxRet.msg.isNil /\ rxRet.err = NoErr
  /\ TxReturned /\ sAtAbort /\ sBranch = "result" /\ sRet.err = NoErr

\* C4: while no Close and no Abort has cleared the flag, after any number
\* (at least one) of Start calls exactly one compare-and-swap has succeeded
\* and IsConnected() is true.
C4_StartOnce ==
  (nStart > 0 /\ ~cleared) => (nCas = 1 /\ Connected = 1 /\ IsConnected)

\* two Start calls have run on the idle session
C4_Witness == nStart >= 2 /\ ~cleared /\ nCas = 1 /\ IsConnected

\* C5 as stated: IsConnected() is false before the first Start, and false in
\* every state after an Abort or a Close has returned.
C5_TerminalStaysDisconnected ==
  /\ nStart = 0 => ~IsConnected
  /\ terminal => ~IsConnected

\* a Receive call blocked in Connection.Read, the context not cancelled
RxBlocked == rxPc = "select" /\ gPc = "read" /\ ~ctxDone

\* a step of a Close call: its entry, or a step of its writeMessage
CloseStep ==
  \/ \E er \in ErrorTexts : Close(er)
  \/ /\ sOp = "Close"
     /\ \/ TxCaller
        \/ TxAttempt
        \/ \E er \in {NoErr, IOErr} : WriteMessage_return(er)

\* C6: no step of a Close call changes whether the context is cancelled, and
\* none unblocks a Receive call that is blocked in Connection.Read.
C6_CloseLeavesScope ==
  [][CloseStep => (ctxDone' = ctxDone /\ (RxBlocked => RxBlocked'))]_vars

\* two sender calls, the last a Close, have returned while a Receive call is
\* still blocked on a Connection that holds no bytes
C6_Witness ==
  /\ RxBlocked /\ inbound = <<>>
  /\ TxReturned /\ sOp = "Close" /\ sCalls >= 2 /\ sBranch = "result"

\* what a Close call that returned without cancellation has done
CloseOutcome ==
  (TxReturned /\ sOp = "Close" /\ ~ctxDone) =>
    /\ sRet.msg = [Type |-> 7, Error |-> sArgs.error, AllowReconnect |-> TRUE]
    /\ handed = <<sRet.msg>>
    /\ sRet.err = wErr
    /\ wErr \in {NoErr, IOErr}

\* what the steps of a Close call do to the Connected flag
CloseFlag ==
  /\ (\E er \in ErrorTexts : Close(er)) => Connected' = 0
  /\ (sOp = "Close" /\ (TxCaller \/ TxAttempt
                         \/ \E er \in {NoErr, IOErr} : WriteMessage_return(er)))
       => Connected' = Connected

\* C7: Close(errorText), entered in any state of the flag, stores 0 to
\* Connected, and no later step of the call (a failing write included) changes
\* the flag; a Close that returns on a context that is not cancelled has
\* handed exactly one message (Type 7, Error errorText, AllowReconnect true) to
\* WriteMessage and returns that message with the error WriteMessage returned.
C7_Close == []CloseOutcome /\ [][CloseFlag]_vars

\* a Close entered on a Connected session has returned the I/O error of its
\* write, and the flag is cleared
C7_Witness ==
  /\ TxReturned /\ sOp = "Close" /\ ~ctxDone
  /\ sRet.err = IOErr /\ sRet.msg.Error = "boom"
  /\ nCas = 1 /\ nStart = 1 /\ ~IsConnected

IsPrefix(a, b) == Len(a) <= Len(b) /\ SubSeq(b, 1, Len(a)) = a

\* C8: a Receive call whose Reads (at most two) have delivered a complete
\* valid frame returns, on the result branch, that frame's message with nil
\* error, however the frame's bytes were split over the two Reads.
C8_TwoReads ==
  \A p \in Payloads \ {<<>>} :
    (RxReturned /\ rxBranch = "result" /\ nReads <= 2 /\ IsPrefix(Frame(p), rxStream))
      => rxRet = [msg |-> ParsedMsg(p), err |-> NoErr]

\* the frame of the message <<1, 2>> arrived as <<1>> and <<2, RS>> and the
\* Receive call returned the message
C8_Witness ==
  /\ RxReturned /\ rxBranch = "result" /\ nReads = 2
  /\ rxStream = Frame(<<1, 2>>) /\ chunk = <<2, RS>>
  /\ rxRet = [msg |-> ParsedMsg(<<1, 2>>), err |-> NoErr]

\* what a sender call (not Close) that returned has returned
SenderOutcome ==
  (TxReturned /\ sOp # "Close") =>
    /\ sOp = "SendInvocation" =>
         sRet.msg = [Type |-> 1, Target |-> sArgs.target, Arguments |-> sArgs.args]
    /\ sOp = "StreamItem" =>
         sRet.msg = [Type |-> 2, InvocationID |-> sArgs.id, Item |-> sArgs.item]
    /\ sOp = "Completion" =>
         sRet.msg = [Type |-> 3, InvocationID |-> sArgs.id,
                     Result |-> sArgs.result, Error |-> sArgs.error]
    /\ sOp = "Ping" => sRet.msg = [Type |-> 6]
    /\ handed = <<sRet.msg>>
    /\ ~ctxDone => (sRet.err = wErr /\ wErr \in {NoErr, IOErr})

\* C9: a typed sender that has returned has handed exactly one message to
\* WriteMessage, the message with the sender's Type tag (1, 2, 3, 6) and the
\* caller's fields, and has returned that message, whether the write succeeded
\* or failed; without cancellation the error returned is the one WriteMessage
\* returned (nil or the I/O error).
C9_Senders == SenderOutcome

\* a Completion whose write failed has returned its message and the I/O error
C9_Witness ==
  /\ TxReturned /\ sOp = "Completion" /\ ~ctxDone
  /\ sRet.err = IOErr /\ sRet.msg.Type = 3 /\ sRet.msg.Error = "boom"

\* C10 as stated: without cancellation a Receive call returns either a parsed
\* message with nil error or nil with the error of Connection.Read.
C10_TwoOutcomes ==
  (RxReturned /\ ~ctxDone) =>
    \/ ~rxRet.msg.isNil /\ rxRet.err = NoErr
    \/ rxRet.msg.isNil /\ rxRet.err = IOErr

\* C10, amended: without cancellation a Receive call returns a parsed message
\* with nil error, or nil with the error of Connection.Read, or what
\* ReadMessage returned for a complete frame it could not parse (nil and the
\* protocol's error); in each case it returns what its attempt sent, never
\* (nil, nil) and never a message with an error.
C10_ThreeOutcomes ==
  (RxReturned /\ ~ctxDone) =>
    /\ rxRet = gRes
    /\ \/ ~rxRet.msg.isNil /\ rxRet.err = NoErr
       \/ rxRet.msg.isNil /\ rxRet.err = IOErr
       \/ rxRet.msg.isNil /\ rxRet.err = ParseErr /\ HasRS(rxStream)

\* a Receive call has returned nil and the protocol's error for a frame
\* with an empty payload
C10_Witness ==
  /\ RxReturned /\ ~ctxDone
  /\ rxRet = [msg |-> NilMsg, err |-> ParseErr] /\ rxStream = <<RS>>

\* the positions in the log of the requests of one kind, and the kinds in order
Requests(kind) == {i \in 1..Len(hLog) : hLog[i].kind = kind}
Kinds == [i \in 1..Len(hLog) |-> hLog[i].kind]
\* the negotiate response names the transport
Advertised(name) ==
  \E i \in 1..Len(hNr.AvailableTransports) : hNr.AvailableTransports[i].transport = name
\* the negotiate request was answered 200 with a body that decoded
Negotiated == hStatus = 200 /\ hBody.content = "json"
\* NewHTTPConnection has returned
HTTPReturned == hPc = "done"

\* C11 as stated: when the header provider supplies Authorization: Bearer XYZ
\* and WebSocket is chosen, the headers handed to the dial carry no
\* Authorization header and the dial URL carries access_token=XYZ, for every
\* header provider (one that hands out a fresh header set per call included).
C11_AuthorizationMovedToQuery ==
  \A i \in Requests("DIAL") :
    hCfg.auth =>
      /\ Get(hLog[i].header, "Authorization") = <<>>
      /\ Get(hLog[i].url.query, "access_token") = <<"XYZ">>

\* C12: WebSocket has priority. When the negotiate response advertises both
\* WebSockets and ServerSentEvents, in either order, the call makes the
\* negotiate request and the dial and nothing else; an SSE GET is only ever
\* issued when WebSockets is not advertised.
C12_WebSocketFirst ==
  /\ (HTTPReturned /\ Negotiated /\ Advertised("WebSockets")
        /\ Advertised("ServerSentEvents")) => Kinds = <<"POST", "DIAL">>
  /\ Requests("GET") # {} => ~Advertised("WebSockets")

\* the response lists ServerSentEvents before WebSockets and the call has
\* returned the WebSocket connection after one dial
C12_Witness ==
  /\ HTTPReturned
  /\ hNr.AvailableTransports = <<Transport("ServerSentEvents"), Transport("WebSockets")>>
  /\ Kinds = <<"POST", "DIAL">> /\ hRet.conn.kind = "websocket"

\* C13: the id query parameter of the transport's URL, dial or SSE GET, is
\* the connection token when the token is not empty and the connection id
\* otherwise.
C13_RoutingID ==
  \A i \in Requests("DIAL") \cup Requests("GET") :
    Get(hLog[i].url.query, "id") =
      IF hNr.ConnectionToken # <<>> THEN hNr.ConnectionToken ELSE hNr.ConnectionID

\* a dial with a token and a connection id in the response: id is the token,
\* next to the access_token the header provider's bearer token became
C13_Witness ==
  /\ HTTPReturned /\ Requests("DIAL") # {}
  /\ hNr.ConnectionToken = <<"tok">> /\ hNr.ConnectionID = <<"cid">>
  /\ Get(hLog[2].url.query, "id") = <<"tok">>
  /\ Get(hLog[2].url.query, "access_token") = <<"XYZ">>

\* C14: when the negotiate response advertises neither WebSockets nor
\* ServerSentEvents the call returns (nil, nil), and the negotiate request is
\* the only request it has made.
C14_NoTransport ==
  (HTTPReturned /\ Negotiated /\ ~Advertised("WebSockets")
     /\ ~Advertised("ServerSentEvents"))
    => (hRet = [conn |-> NilConn, err |-> NilError] /\ Kinds = <<"POST">>)

\* a response that advertises LongPolling only has been answered (nil, nil)
C14_Witness ==
  /\ HTTPReturned /\ Negotiated
  /\ hNr.AvailableTransports = <<Transport("LongPolling")>>
  /\ hRet = [conn |-> NilConn, err |-> NilError] /\ Kinds = <<"POST">>

\* C15: a negotiate response whose status is not 200 ends the call: it returns
\* no Connection and the error made of the request's method, its URL and the
\* status text; the response body is closed; the negotiate request is the only
\* request made.
C15_Non200 ==
  (hStatus # 0 /\ hStatus # 200) =>
    /\ HTTPReturned
    /\ hRet.conn = NilConn
    /\ hRet.err = [kind |-> "status", method |-> "POST", url |-> hLog[1].url,
                   status |-> StatusText(hStatus)]
    /\ hRet.err.url.path = <<"hub", "negotiate">>
    /\ hBody.closed
    /\ Kinds = <<"POST">>

\* a 204 with a body that would decode, on a negotiate URL with a query
\* string, has been refused
C15_Witness ==
  /\ HTTPReturned /\ hStatus = 204 /\ hBody.content = "json" /\ hBody.closed
  /\ hRet.err.status = "204 No Content" /\ hRet.err.url.query = QueryString

\* C16: at most one transport request is made per call, and a WebSocket dial
\* that fails ends the call: it returns the dial error and no Connection and
\* no SSE GET is issued, also when ServerSentEvents is advertised.
C16_NoFallback ==
  /\ Cardinality(Requests("DIAL") \cup Requests("GET")) <= 1
  /\ \A i \in Requests("DIAL") :
       ~hLog[i].ok =>
         /\ HTTPReturned
         /\ hRet = [conn |-> NilConn, err |-> HTTPError("dial")]
         /\ Requests("GET") = {}

\* the dial failed with ServerSentEvents advertised too, and the call has
\* returned the dial error
C16_Witness ==
  /\ HTTPReturned /\ Advertised("WebSockets") /\ Advertised("ServerSentEvents")
  /\ Kinds = <<"POST", "DIAL">> /\ ~hLog[2].ok
  /\ hRet = [conn |-> NilConn, err |-> HTTPError("dial")]

\* C17 as stated: a Receive call accumulates over any number of Reads, three
\* in particular (ReadMessage consuming the buffer when the message is
\* incomplete): the buffer offered to each ReadMessage holds all the bytes the
\* call's Reads have returned so far, in order and each once, and a call whose
\* Reads have delivered a complete frame returns that frame's message with nil
\* error.
C17_Accumulates ==
  /\ gPc = "parse" => buf = rxStream
  /\ \A p \in StreamPayloads :
       (RxReturned /\ IsPrefix(Frame(p), rxStream))
         => rxRet = [msg |-> ParsedMsg(p), err |-> NoErr]

\* what a Receive call returns for the frame of payload p
Expected(p) ==
  IF p = <<>> THEN [msg |-> NilMsg, err |-> ParseErr]
              ELSE [msg |-> ParsedMsg(p), err |-> NoErr]

\* C18 as stated: no received byte is lost between serialized Receive calls.
\* Every Receive call that returns a result of the parser (after at most two
\* Reads, which accumulate correctly) returns the oldest frame the peer has
\* sent that no earlier call has answered, however the frames' bytes were
\* split over the Reads: the messages returned are the messages sent, in order.
C18_NoBytesLostBetweenCalls ==
  [][(Receive_recvM /\ rxErr # IOErr /\ nReads <= 2)
       => (owed # <<>> /\ rxRet' = Expected(Head(owed)))]_vars

\* C19: an attempt never blocks on delivering its result. Each channel holds
\* at most one value; an attempt that is at a channel send can take it at once,
\* whatever the caller has done; the caller's receive from m after it took the
\* error from e never blocks; and a finished read attempt has sent exactly one
\* value on each channel (it is still there unless the caller has taken it),
\* a finished write attempt exactly one on its channel.
C19_AttemptsNeverBlock ==
  /\ Len(m) <= 1 /\ Len(e) <= 1 /\ Len(we) <= 1
  /\ gPc = "sendM" => (m = <<>> /\ e = <<>> /\ ENABLED Receive_sendM)
  /\ gPc = "sendE" => (Len(m) = 1 /\ e = <<>> /\ ENABLED Receive_sendE)
  /\ wPc = "sendE" => (we = <<>> /\ ENABLED writeMessage_sendE)
  /\ rxPc = "recvM" => (Len(m) = 1 /\ ENABLED Receive_recvM)
  /\ gPc = "done" =>
       /\ Len(e) = (IF rxPc \in {"select", "drain"} THEN 1 ELSE 0)
       /\ Len(m) = (IF rxPc = "idle" /\ rxBranch = "result" THEN 0 ELSE 1)
  /\ wPc = "done" => Len(we) = (IF sPc \in {"select", "drain"} THEN 1 ELSE 0)

\* a Receive call and a sender call have each returned on the cancellation
\* branch after their attempts delivered into the one-slot channels: the
\* message nobody takes is still in m
C19_Witness ==
  /\ RxReturned /\ rxBranch = "cancel" /\ gPc = "done" /\ Len(m) = 1 /\ e = <<>>
  /\ TxReturned /\ sBranch = "cancel" /\ wPc = "done" /\ we = <<>>

\* C20 as stated: at every point of a Receive call the accumulation buffer
\* holds at most maximumReceiveMessageSize bytes.
C20_BufferWithinMax == Len(buf) <= MaxRecv

\* C20, amended: with a ReadMessage that consumes the buffer when the message
\* is incomplete, the accumulation buffer holds at most twice
\* maximumReceiveMessageSize bytes: the last chunk written back and the chunk
\* the next Read appends.
C20_BufferWithinTwiceMax == Len(buf) <= 2 * MaxRecv

\* after two full Reads the buffer offered to ReadMessage holds twice
\* maximumReceiveMessageSize bytes of a message the peer has not completed
C20_Witness ==
  /\ gPc = "parse" /\ nReads = 2 /\ Len(buf) = 2 * MaxRecv /\ Len(chunk) = MaxRecv
  /\ ~HasRS(buf)

====
